---- MODULE Spec2Model ----
\* Rate-limited, retrying call executor of semantic_scholar_search.py:
\* _wait_for_request_slot (the rate gate), _is_retriable_error (the failure
\* classification) and _call_with_rate_limit_and_backoff (the retrying executor),
\* run by several threads over one monotonic clock.
\*
\* Time is counted in ticks of half a second: 1.0 s is 2 ticks.
EXTENDS Integers, Sequences, FiniteSets, TLC

\* ---------------------------------------------------------------- bounds
NumCallers == 2          \* threads, each making one call of the executor
MaxTime == 3             \* the clock advances freely up to here, and beyond it
                         \* only while a caller sleeps
MaxFailures == 3         \* errors the operation raises in one run, all callers

\* ---------------------------------------------------------------- configuration
REQUEST_INTERVAL_SECONDS == 2    \* 1.0 s, in ticks

Callers == 1..NumCallers
NoCaller == 0

\* The runs of the model: a retry policy and the number of callers that call, as
\* <<MAX_RETRIES, BACKOFF_BASE_SECONDS, BACKOFF_MAX_SECONDS, BACKOFF_JITTER_SECONDS,
\*   callers>> (durations in ticks).  The environment supplies the policy at import.
Runs ==
    { <<0, 2, 64, 1, NumCallers>>,  \* no retry at all, every caller calls
      <<2, 2, 64, 0, 1>>,           \* base 1 s, cap 32 s: delays 1 s, 2 s
      <<2, 1, 1, 1, 1>>,            \* the cap binds from the second retry on; jitter
      <<1, 0, 0, 0, 2>> }           \* retries without backoff, two callers

VARIABLES
    clock,                   \* time.monotonic()
    _next_request_time,      \* line 23
    _rate_limit_lock,        \* line 22: the caller holding it, or NoCaller
    MAX_RETRIES,             \* line 17
    BACKOFF_BASE_SECONDS,    \* line 18
    BACKOFF_MAX_SECONDS,     \* line 19
    BACKOFF_JITTER_SECONDS,  \* line 20
    pc,                      \* where each caller is
    attempt,                 \* the loop variable of line 68
    now,                     \* local of _wait_for_request_slot
    reserved_time,           \* local of _wait_for_request_slot
    wait_seconds,            \* local of _wait_for_request_slot
    delay,                   \* local of _call_with_rate_limit_and_backoff, line 79
    wake,                    \* the instant the caller's time.sleep() may end
    error,                   \* the exception caught at line 72
    outcome,                 \* what the call gave its caller
    reservations,            \* history: the reserved instants, in the order made
    invocations,             \* history: the instants the operation was invoked at
    acquired,                \* history: returns of _wait_for_request_slot, per caller
    invoked,                 \* history: invocations of the operation, per caller
    retriable_raised,        \* history: retriable errors the operation raised, per caller
    fatal_raised,            \* history: fatal errors the operation raised, per caller
    backoffs,                \* history: sleeps of line 88 begun, per caller
    slept,                   \* history: time spent in the sleeps of line 88, per caller
    failures,                \* history: errors the operation raised, all callers
    ticket,                  \* history: which reservation, counted from 1, the slot
                             \* a caller holds is; 0 when it holds none
    burst_at,                \* the instant all callers called at together, -1 if
                             \* each calls when it likes
    probe,                   \* the error _is_retriable_error is applied to on its own
    verdict                  \* what it returned ("True", "False"), "none" before the call

vars == << clock, _next_request_time, _rate_limit_lock, MAX_RETRIES,
           BACKOFF_BASE_SECONDS, BACKOFF_MAX_SECONDS, BACKOFF_JITTER_SECONDS,
           pc, attempt, now, reserved_time, wait_seconds, delay, wake, error,
           outcome, reservations, invocations, acquired, invoked, retriable_raised,
           fatal_raised, backoffs, slept, failures, ticket, burst_at, probe,
           verdict >>

policyVars == << MAX_RETRIES, BACKOFF_BASE_SECONDS, BACKOFF_MAX_SECONDS,
                 BACKOFF_JITTER_SECONDS >>
fixedVars == << policyVars, burst_at >>
gateLocals == << now, reserved_time, wait_seconds >>
raisedCounts == << retriable_raised, fatal_raised, failures >>
history == << reservations, invocations, acquired, invoked, raisedCounts, backoffs,
              slept >>
classifyVars == << probe, verdict >>

\* ---------------------------------------------------------------- helpers
Max(a, b) == IF a >= b THEN a ELSE b
Min(a, b) == IF a <= b THEN a ELSE b

RECURSIVE Pow2(_)
Pow2(n) == IF n = 0 THEN 1 ELSE 2 * Pow2(n - 1)

\* ---------------------------------------------------------------- errors
\* An error has a kind (its exception class) and a message (str(error)), a
\* sequence of characters.
UpperCase == << "A", "B", "C", "D", "E", "F", "G", "H", "I", "J", "K", "L", "M",
                "N", "O", "P", "Q", "R", "S", "T", "U", "V", "W", "X", "Y", "Z" >>
LowerCase == << "a", "b", "c", "d", "e", "f", "g", "h", "i", "j", "k", "l", "m",
                "n", "o", "p", "q", "r", "s", "t", "u", "v", "w", "x", "y", "z" >>

\* str.lower() on one character
LowerChar(ch) ==
    IF \E i \in 1..Len(UpperCase) : UpperCase[i] = ch
    THEN LowerCase[CHOOSE i \in 1..Len(UpperCase) : UpperCase[i] = ch]
    ELSE ch

\* no lower-casing at all
LowerIdentity(s) == s

\* str.lower()
Lower(s) == [i \in 1..Len(s) |-> LowerChar(s[i])]

\* token in message, scanning the start positions from `from` on
RECURSIVE FindFrom(_, _, _)
FindFrom(token, message, from) ==
    IF from + Len(token) - 1 > Len(message) THEN FALSE
    ELSE IF SubSeq(message, from, from + Len(token) - 1) = token THEN TRUE
    ELSE FindFrom(token, message, from + 1)

Contains(token, message) == FindFrom(token, message, 1)

\* line 49-60
retriable_tokens ==
    << << "4", "2", "9" >>,
       << "t", "o", "o", " ", "m", "a", "n", "y", " ", "r", "e", "q", "u", "e", "s", "t", "s" >>,
       << "t", "i", "m", "e", "d", " ", "o", "u", "t" >>,
       << "t", "i", "m", "e", "o", "u", "t" >>,
       << "c", "o", "n", "n", "e", "c", "t", "i", "o", "n", " ", "r", "e", "s", "e", "t" >>,
       << "c", "o", "n", "n", "e", "c", "t", "i", "o", "n", " ", "a", "b", "o", "r", "t", "e", "d" >>,
       << "t", "e", "m", "p", "o", "r", "a", "r", "i", "l", "y", " ", "u", "n", "a", "v", "a", "i", "l", "a", "b", "l", "e" >>,
       << "5", "0", "2" >>,
       << "5", "0", "3" >>,
       << "5", "0", "4" >> >>

\* The exception classes of the model and the class each derives from.
BaseOf(kind) ==
    CASE kind = "ConnectionRefusedError" -> "ConnectionError"
      [] kind = "ConnectionResetError" -> "ConnectionError"
      [] kind = "ConnectionError" -> "OSError"
      [] kind = "TimeoutError" -> "OSError"
      [] kind = "OSError" -> "Exception"
      [] kind = "InternalServerErrorException" -> "SemanticScholarException"
      [] kind = "GatewayTimeoutException" -> "SemanticScholarException"
      [] kind = "BadQueryParametersException" -> "SemanticScholarException"
      [] kind = "SemanticScholarException" -> "Exception"
      [] kind = "ValueError" -> "Exception"
      [] OTHER -> "Exception"

RECURSIVE isinstance(_, _)
isinstance(kind, class) ==
    IF kind = class THEN TRUE
    ELSE IF kind = "Exception" THEN FALSE
    ELSE isinstance(BaseOf(kind), class)

\* line 61: any(token in message for token in retriable_tokens)
RECURSIVE AnyToken(_, _)
AnyToken(message, k) ==
    IF k > Len(retriable_tokens) THEN FALSE
    ELSE IF Contains(retriable_tokens[k], message) THEN TRUE
    ELSE AnyToken(message, k + 1)

\* line 41-61
_is_retriable_error(e) ==
    IF isinstance(e.kind, "ConnectionRefusedError") \/ isinstance(e.kind, "TimeoutError")
    THEN TRUE
    ELSE IF isinstance(e.kind, "InternalServerErrorException")
            \/ isinstance(e.kind, "GatewayTimeoutException")
    THEN TRUE
    ELSE AnyToken(Lower(e.message), 1)

\* The errors the operation raises in the model of the executor.
OperationErrors ==
    { [kind |-> "Exception", message |-> << "5", "0", "3" >>],
      [kind |-> "ValueError", message |-> << "b", "a", "d" >>] }

NoError == [kind |-> "None", message |-> << >>]

\* The errors _is_retriable_error is applied to on its own: every kind with
\* every message.
SampleKinds ==
    { "ConnectionRefusedError", "TimeoutError", "InternalServerErrorException",
      "GatewayTimeoutException", "ConnectionResetError", "ConnectionError",
      "OSError", "BadQueryParametersException", "SemanticScholarException",
      "ValueError", "Exception" }

SampleMessages ==
    { << >>,
      << "4", "2", "9" >>,
      << "T", "o", "o", " ", "M", "a", "n", "y", " ", "R", "e", "q", "u", "e", "s", "t", "s" >>,
      << "T", "i", "m", "e", "d", " ", "O", "u", "t" >>,
      << "T", "I", "M", "E", "O", "U", "T" >>,
      << "C", "o", "n", "n", "e", "c", "t", "i", "o", "n", " ", "r", "e", "s", "e", "t", " ", "b", "y", " ", "p", "e", "e", "r" >>,
      << "C", "O", "N", "N", "E", "C", "T", "I", "O", "N", " ", "A", "B", "O", "R", "T", "E", "D" >>,
      << "T", "e", "m", "p", "o", "r", "a", "r", "i", "l", "y", " ", "U", "n", "a", "v", "a", "i", "l", "a", "b", "l", "e" >>,
      << "5", "0", "2", " ", "B", "a", "d", " ", "G", "a", "t", "e", "w", "a", "y" >>,
      << "H", "T", "T", "P", " ", "5", "0", "3" >>,
      << "x", "5", "0", "4" >>,
      << "i", "n", "v", "a", "l", "i", "d", " ", "a", "r", "g", "u", "m", "e", "n", "t" >>,
      << "4", "0", "4", " ", "N", "o", "t", " ", "F", "o", "u", "n", "d" >>,
      << "4", "2", " ", "9" >>,
      << "t", "i", "m", "e", " ", "o", "u", "t" >>,
      << "c", "o", "n", "n", "e", "c", "t", "i", "o", "n", " ", "r", "e", "f", "u", "s", "e", "d" >>,
      << "5", "0", "0", " ", "I", "n", "t", "e", "r", "n", "a", "l", " ", "S", "e", "r", "v", "e", "r", " ", "E", "r", "r", "o", "r" >>,
      << "t", "o", "o", " ", "m", "a", "n", "y", " ", "r", "e", "q", "u", "e", "s", "t" >>,
      << "5", "0" >> }

SampleErrors == { [kind |-> k, message |-> m] : k \in SampleKinds, m \in SampleMessages }

\* ---------------------------------------------------------------- the rate gate and the executor
\* the slot is the instant of the call, whatever has been reserved
ReservedTimeNow(t, next) == t

\* line 33
ReservedTime(t, next) == Max(t, next)

\* the interval is forgotten
NextRequestTimeNoAdvance(reserved) == reserved

\* line 35
NextRequestTime(reserved) == reserved + REQUEST_INTERVAL_SECONDS

\* a lock that excludes nobody
LockFreeAlways(lock) == TRUE

\* line 31: threading.Lock is free
LockFree(lock) == lock = NoCaller

\* line 68: attempt in range(MAX_RETRIES + 1)
InRange(a) == a < MAX_RETRIES + 1

\* one retry too few
ShouldRetryOffByOne(a, e) == a + 1 < MAX_RETRIES /\ _is_retriable_error(e)

\* every error is retried
ShouldRetryAnyError(a, e) == a < MAX_RETRIES

\* the bound on the attempts is forgotten
ShouldRetryForever(a, e) == _is_retriable_error(e)

\* line 73
ShouldRetry(a, e) == a < MAX_RETRIES /\ _is_retriable_error(e)

\* the cap is not applied
BackoffUncapped(a) == BACKOFF_BASE_SECONDS * Pow2(a)

\* 2 * attempt in place of 2 ** attempt
BackoffLinear(a) == Min(BACKOFF_MAX_SECONDS, BACKOFF_BASE_SECONDS * (2 * a))

\* line 77
Backoff(a) == Min(BACKOFF_MAX_SECONDS, BACKOFF_BASE_SECONDS * Pow2(a))

\* line 78: random.uniform(0.0, BACKOFF_JITTER_SECONDS)
Jitters == 0..BACKOFF_JITTER_SECONDS

Init ==
    /\ clock = 0
    /\ _next_request_time = 0
    /\ _rate_limit_lock = NoCaller
    /\ \E r \in Runs :
        /\ MAX_RETRIES = r[1]
        /\ BACKOFF_BASE_SECONDS = r[2]
        /\ BACKOFF_MAX_SECONDS = r[3]
        /\ BACKOFF_JITTER_SECONDS = r[4]
        /\ pc = [c \in Callers |-> IF c <= r[5] THEN "start" ELSE "absent"]
    /\ attempt = [c \in Callers |-> 0]
    /\ now = [c \in Callers |-> 0]
    /\ reserved_time = [c \in Callers |-> 0]
    /\ wait_seconds = [c \in Callers |-> 0]
    /\ delay = [c \in Callers |-> 0]
    /\ wake = [c \in Callers |-> 0]
    /\ error = [c \in Callers |-> NoError]
    /\ outcome = [c \in Callers |-> [status |-> "none"]]
    /\ reservations = << >>
    /\ invocations = << >>
    /\ acquired = [c \in Callers |-> 0]
    /\ invoked = [c \in Callers |-> 0]
    /\ retriable_raised = [c \in Callers |-> 0]
    /\ fatal_raised = [c \in Callers |-> 0]
    /\ backoffs = [c \in Callers |-> 0]
    /\ slept = [c \in Callers |-> 0]
    /\ failures = 0
    /\ ticket = [c \in Callers |-> 0]
    /\ burst_at = -1
    /\ probe = NoError
    /\ verdict = "none"

\* line 64-69: the call enters the loop and calls _wait_for_request_slot
Call(c) ==
    /\ pc[c] = "start"
    /\ attempt' = [attempt EXCEPT ![c] = 0]
    /\ pc' = [pc EXCEPT ![c] = IF InRange(0) THEN "lock" ELSE "fell_through"]
    /\ outcome' = [outcome EXCEPT ![c] =
                     IF InRange(0) THEN @ ELSE [status |-> "returned_none"]]
    /\ UNCHANGED << ticket, clock, _next_request_time, _rate_limit_lock, fixedVars,
                    gateLocals, delay, wake, error, history, classifyVars >>

\* line 31-34: the with block is entered; now, reserved_time and wait_seconds
\* are computed under the lock
Reserve(c) ==
    /\ pc[c] = "lock"
    /\ LockFree(_rate_limit_lock)
    /\ _rate_limit_lock' = c
    /\ now' = [now EXCEPT ![c] = clock]
    /\ reserved_time' = [reserved_time EXCEPT ![c] = ReservedTime(clock, _next_request_time)]
    /\ wait_seconds' = [wait_seconds EXCEPT ![c] = reserved_time'[c] - now'[c]]
    /\ reservations' = Append(reservations, reserved_time'[c])
    /\ ticket' = [ticket EXCEPT ![c] = Len(reservations) + 1]
    /\ pc' = [pc EXCEPT ![c] = "advance"]
    /\ UNCHANGED << clock, _next_request_time, fixedVars, attempt, delay, wake,
                    error, outcome, invocations, acquired, invoked, raisedCounts,
                    backoffs, slept, classifyVars >>

\* Advance that leaves the with block without releasing the lock.
AdvanceKeepsLock(c) ==
    /\ pc[c] = "advance"
    /\ _next_request_time' = NextRequestTime(reserved_time[c])
    /\ IF wait_seconds[c] > 0
       THEN /\ wake' = [wake EXCEPT ![c] = clock + wait_seconds[c]]
            /\ pc' = [pc EXCEPT ![c] = "sleeping"]
            /\ UNCHANGED acquired
       ELSE /\ pc' = [pc EXCEPT ![c] = "call"]
            /\ acquired' = [acquired EXCEPT ![c] = @ + 1]
            /\ UNCHANGED wake
    /\ now' = [now EXCEPT ![c] = 0]
    /\ reserved_time' = [reserved_time EXCEPT ![c] = 0]
    /\ wait_seconds' = [wait_seconds EXCEPT ![c] = 0]
    /\ UNCHANGED << ticket, clock, _rate_limit_lock, fixedVars, attempt, delay, error, outcome, reservations,
                    invocations, invoked, raisedCounts, backoffs, slept, classifyVars >>

\* Advance with time.sleep inside the with block.
AdvanceSleepsInLock(c) ==
    /\ pc[c] = "advance"
    /\ _next_request_time' = NextRequestTime(reserved_time[c])
    /\ _rate_limit_lock' = IF wait_seconds[c] > 0 THEN c ELSE NoCaller
    /\ IF wait_seconds[c] > 0
       THEN /\ wake' = [wake EXCEPT ![c] = clock + wait_seconds[c]]
            /\ pc' = [pc EXCEPT ![c] = "sleeping"]
            /\ UNCHANGED acquired
       ELSE /\ pc' = [pc EXCEPT ![c] = "call"]
            /\ acquired' = [acquired EXCEPT ![c] = @ + 1]
            /\ UNCHANGED wake
    /\ now' = [now EXCEPT ![c] = 0]
    /\ reserved_time' = [reserved_time EXCEPT ![c] = 0]
    /\ wait_seconds' = [wait_seconds EXCEPT ![c] = 0]
    /\ UNCHANGED << ticket, clock, fixedVars, attempt, delay, error, outcome, reservations,
                    invocations, invoked, raisedCounts, backoffs, slept, classifyVars >>

\* line 35-38: _next_request_time is advanced and the with block left; then
\* time.sleep(wait_seconds) is called, or skipped and the gate returns
Advance(c) ==
    /\ pc[c] = "advance"
    /\ _next_request_time' = NextRequestTime(reserved_time[c])
    /\ _rate_limit_lock' = NoCaller
    /\ IF wait_seconds[c] > 0
       THEN /\ wake' = [wake EXCEPT ![c] = clock + wait_seconds[c]]
            /\ pc' = [pc EXCEPT ![c] = "sleeping"]
            /\ UNCHANGED acquired
       ELSE /\ pc' = [pc EXCEPT ![c] = "call"]
            /\ acquired' = [acquired EXCEPT ![c] = @ + 1]
            /\ UNCHANGED wake
    /\ now' = [now EXCEPT ![c] = 0]
    /\ reserved_time' = [reserved_time EXCEPT ![c] = 0]
    /\ wait_seconds' = [wait_seconds EXCEPT ![c] = 0]
    /\ UNCHANGED << ticket, clock, fixedVars, attempt, delay, error, outcome, reservations,
                    invocations, invoked, raisedCounts, backoffs, slept, classifyVars >>

\* Wake with a sleep that returns as soon as it is called.
WakeAtOnce(c) ==
    /\ pc[c] = "sleeping"
    /\ wake' = [wake EXCEPT ![c] = 0]
    /\ pc' = [pc EXCEPT ![c] = "call"]
    /\ acquired' = [acquired EXCEPT ![c] = @ + 1]
    /\ UNCHANGED << ticket, clock, _next_request_time, _rate_limit_lock, fixedVars, attempt,
                    gateLocals, delay, error, outcome, reservations, invocations,
                    invoked, raisedCounts, backoffs, slept, classifyVars >>

\* line 38: time.sleep returns, no earlier than asked, and the gate returns
Wake(c) ==
    /\ pc[c] = "sleeping"
    /\ clock >= wake[c]
    /\ wake' = [wake EXCEPT ![c] = 0]
    /\ pc' = [pc EXCEPT ![c] = "call"]
    /\ acquired' = [acquired EXCEPT ![c] = @ + 1]
    /\ UNCHANGED << ticket, clock, _next_request_time, _rate_limit_lock, fixedVars, attempt,
                    gateLocals, delay, error, outcome, reservations, invocations,
                    invoked, raisedCounts, backoffs, slept, classifyVars >>

\* the result is not returned: the loop goes on after a success
InvokeReturnNoReturn(c) ==
    /\ pc[c] = "call"
    /\ invocations' = Append(invocations, clock)
    /\ invoked' = [invoked EXCEPT ![c] = @ + 1]
    /\ attempt' = [attempt EXCEPT ![c] = @ + 1]
    /\ pc' = [pc EXCEPT ![c] = IF InRange(attempt[c] + 1) THEN "lock" ELSE "fell_through"]
    /\ outcome' = [outcome EXCEPT ![c] =
                     IF InRange(attempt[c] + 1) THEN @ ELSE [status |-> "returned_none"]]
    /\ UNCHANGED << ticket, clock, _next_request_time, _rate_limit_lock, fixedVars,
                    gateLocals, delay, wake, error, reservations, acquired,
                    raisedCounts, backoffs, slept, classifyVars >>

\* line 71: the operation is invoked and returns
InvokeReturn(c) ==
    /\ pc[c] = "call"
    /\ invocations' = Append(invocations, clock)
    /\ ticket' = [ticket EXCEPT ![c] = 0]
    /\ invoked' = [invoked EXCEPT ![c] = @ + 1]
    /\ pc' = [pc EXCEPT ![c] = "returned"]
    /\ outcome' = [outcome EXCEPT ![c] = [status |-> "result", attempt |-> attempt[c]]]
    /\ UNCHANGED << clock, _next_request_time, _rate_limit_lock, fixedVars, attempt,
                    gateLocals, delay, wake, error, reservations, acquired,
                    raisedCounts, backoffs, slept, classifyVars >>

\* line 71-72: the operation is invoked and raises
InvokeRaise(c) ==
    /\ pc[c] = "call"
    /\ failures < MaxFailures
    /\ \E e \in OperationErrors :
        /\ error' = [error EXCEPT ![c] = [kind |-> e.kind, message |-> e.message,
                                          attempt |-> attempt[c]]]
        /\ retriable_raised' = [retriable_raised EXCEPT ![c] =
                                  IF _is_retriable_error(e) THEN @ + 1 ELSE @]
        /\ fatal_raised' = [fatal_raised EXCEPT ![c] =
                              IF _is_retriable_error(e) THEN @ ELSE @ + 1]
    /\ failures' = failures + 1
    /\ invocations' = Append(invocations, clock)
    /\ ticket' = [ticket EXCEPT ![c] = 0]
    /\ invoked' = [invoked EXCEPT ![c] = @ + 1]
    /\ pc' = [pc EXCEPT ![c] = "except"]
    /\ UNCHANGED << clock, _next_request_time, _rate_limit_lock, fixedVars, attempt,
                    gateLocals, delay, wake, outcome, reservations, acquired, backoffs,
                    slept, classifyVars >>

\* Reraise that gives the slot of the failed attempt back.
ReraiseRefund(c) ==
    /\ pc[c] = "except"
    /\ ~ShouldRetry(attempt[c], error[c])
    /\ outcome' = [outcome EXCEPT ![c] = [status |-> "error", error |-> error[c]]]
    /\ error' = [error EXCEPT ![c] = NoError]
    /\ pc' = [pc EXCEPT ![c] = "raised"]
    /\ _next_request_time' = _next_request_time - REQUEST_INTERVAL_SECONDS
    /\ UNCHANGED << ticket, clock, _rate_limit_lock, fixedVars, attempt,
                    gateLocals, delay, wake, history, classifyVars >>

\* line 73-75: the error is not retried, and propagates
Reraise(c) ==
    /\ pc[c] = "except"
    /\ ~ShouldRetry(attempt[c], error[c])
    /\ outcome' = [outcome EXCEPT ![c] = [status |-> "error", error |-> error[c]]]
    /\ error' = [error EXCEPT ![c] = NoError]
    /\ pc' = [pc EXCEPT ![c] = "raised"]
    /\ UNCHANGED << ticket, clock, _next_request_time, _rate_limit_lock, fixedVars, attempt,
                    gateLocals, delay, wake, history, classifyVars >>

\* the retry starts at once, with no backoff wait
StartBackoffSkip(c) ==
    /\ pc[c] = "except"
    /\ ShouldRetry(attempt[c], error[c])
    /\ error' = [error EXCEPT ![c] = NoError]
    /\ attempt' = [attempt EXCEPT ![c] = @ + 1]
    /\ pc' = [pc EXCEPT ![c] = "lock"]
    /\ UNCHANGED << ticket, clock, _next_request_time, _rate_limit_lock, fixedVars,
                    gateLocals, delay, wake, outcome, history, classifyVars >>

\* line 73-88: the error is retried; the delay is computed and time.sleep called
StartBackoff(c) ==
    /\ pc[c] = "except"
    /\ ShouldRetry(attempt[c], error[c])
    /\ \E jitter \in Jitters :
        /\ delay' = [delay EXCEPT ![c] = Backoff(attempt[c]) + jitter]
        /\ wake' = [wake EXCEPT ![c] = clock + delay'[c]]
    /\ backoffs' = [backoffs EXCEPT ![c] = @ + 1]
    /\ error' = [error EXCEPT ![c] = NoError]
    /\ pc' = [pc EXCEPT ![c] = "backoff"]
    /\ UNCHANGED << ticket, clock, _next_request_time, _rate_limit_lock, fixedVars, attempt,
                    gateLocals, outcome, reservations, invocations, acquired, invoked,
                    raisedCounts, slept, classifyVars >>

\* the retry invokes the operation without passing the gate
EndBackoffNoGate(c) ==
    /\ pc[c] = "backoff"
    /\ clock >= wake[c]
    /\ slept' = [slept EXCEPT ![c] = @ + (clock - (wake[c] - delay[c]))]
    /\ wake' = [wake EXCEPT ![c] = 0]
    /\ delay' = [delay EXCEPT ![c] = 0]
    /\ attempt' = [attempt EXCEPT ![c] = @ + 1]
    /\ pc' = [pc EXCEPT ![c] = "call"]
    /\ UNCHANGED << ticket, clock, _next_request_time, _rate_limit_lock, fixedVars,
                    gateLocals, error, outcome, reservations, invocations, acquired,
                    invoked, raisedCounts, backoffs, classifyVars >>

\* EndBackoff with a sleep that returns as soon as it is called.
EndBackoffAtOnce(c) ==
    /\ pc[c] = "backoff"
    /\ slept' = [slept EXCEPT ![c] = @ + Max(0, clock - (wake[c] - delay[c]))]
    /\ wake' = [wake EXCEPT ![c] = 0]
    /\ delay' = [delay EXCEPT ![c] = 0]
    /\ attempt' = [attempt EXCEPT ![c] = @ + 1]
    /\ pc' = [pc EXCEPT ![c] = IF InRange(attempt[c] + 1) THEN "lock" ELSE "fell_through"]
    /\ outcome' = [outcome EXCEPT ![c] =
                     IF InRange(attempt[c] + 1) THEN @ ELSE [status |-> "returned_none"]]
    /\ UNCHANGED << ticket, clock, _next_request_time, _rate_limit_lock, fixedVars, gateLocals,
                    error, reservations, invocations, acquired, invoked, raisedCounts,
                    backoffs, classifyVars >>

\* line 88, 68-69: time.sleep returns, no earlier than asked; the loop goes on
EndBackoff(c) ==
    /\ pc[c] = "backoff"
    /\ clock >= wake[c]
    /\ slept' = [slept EXCEPT ![c] = @ + (clock - (wake[c] - delay[c]))]
    /\ wake' = [wake EXCEPT ![c] = 0]
    /\ delay' = [delay EXCEPT ![c] = 0]
    /\ attempt' = [attempt EXCEPT ![c] = @ + 1]
    /\ pc' = [pc EXCEPT ![c] = IF InRange(attempt[c] + 1) THEN "lock" ELSE "fell_through"]
    /\ outcome' = [outcome EXCEPT ![c] =
                     IF InRange(attempt[c] + 1) THEN @ ELSE [status |-> "returned_none"]]
    /\ UNCHANGED << ticket, clock, _next_request_time, _rate_limit_lock, fixedVars, gateLocals,
                    error, reservations, invocations, acquired, invoked, raisedCounts,
                    backoffs, classifyVars >>

\* time.monotonic() advances
Tick ==
    /\ \/ clock < MaxTime
       \/ \E c \in Callers : pc[c] \in {"sleeping", "backoff"} /\ clock < wake[c]
    /\ clock' = clock + 1
    /\ UNCHANGED << ticket, _next_request_time, _rate_limit_lock, fixedVars, pc, attempt,
                    gateLocals, delay, wake, error, outcome, history, classifyVars >>

Next ==
    \/ \E c \in Callers :
        \/ Call(c)
        \/ Reserve(c)
        \/ Advance(c)
        \/ Wake(c)
        \/ InvokeReturn(c)
        \/ InvokeRaise(c)
        \/ Reraise(c)
        \/ StartBackoff(c)
        \/ EndBackoff(c)
    \/ Tick

Spec == Init /\ [][Next]_vars

\* ---------------------------------------------------------------- a burst of calls
\* The instants a burst is made at.
BurstInstants == { 0, 1 }

\* The runs of a burst, as in Runs.
BurstRuns ==
    { <<0, 2, 64, 1, NumCallers>>,  \* no retry at all, every caller calls
      <<2, 2, 64, 0, 1>>,           \* base 1 s, cap 32 s: delays 1 s, 2 s
      <<2, 2, 64, 1, 1>> }          \* the same with jitter

\* line 64-69: every caller of the run has called at the same instant, burst_at,
\* and is about to enter _wait_for_request_slot's with block.
InitTogether(runs, instants) ==
    /\ clock \in instants
    /\ burst_at = clock
    /\ _next_request_time = 0
    /\ _rate_limit_lock = NoCaller
    /\ \E r \in runs :
        /\ MAX_RETRIES = r[1]
        /\ BACKOFF_BASE_SECONDS = r[2]
        /\ BACKOFF_MAX_SECONDS = r[3]
        /\ BACKOFF_JITTER_SECONDS = r[4]
        /\ pc = [c \in Callers |-> IF c <= r[5] THEN "lock" ELSE "absent"]
    /\ attempt = [c \in Callers |-> 0]
    /\ now = [c \in Callers |-> 0]
    /\ reserved_time = [c \in Callers |-> 0]
    /\ wait_seconds = [c \in Callers |-> 0]
    /\ delay = [c \in Callers |-> 0]
    /\ wake = [c \in Callers |-> 0]
    /\ error = [c \in Callers |-> NoError]
    /\ outcome = [c \in Callers |-> [status |-> "none"]]
    /\ reservations = << >>
    /\ invocations = << >>
    /\ acquired = [c \in Callers |-> 0]
    /\ invoked = [c \in Callers |-> 0]
    /\ retriable_raised = [c \in Callers |-> 0]
    /\ fatal_raised = [c \in Callers |-> 0]
    /\ backoffs = [c \in Callers |-> 0]
    /\ slept = [c \in Callers |-> 0]
    /\ failures = 0
    /\ ticket = [c \in Callers |-> 0]
    /\ probe = NoError
    /\ verdict = "none"

InitBurst == InitTogether(BurstRuns, BurstInstants)

NextBurst ==
    \/ \E c \in Callers :
        \/ Reserve(c)
        \/ Advance(c)
        \/ Wake(c)
        \/ InvokeReturn(c)
        \/ InvokeRaise(c)
        \/ Reraise(c)
        \/ StartBackoff(c)
        \/ EndBackoff(c)
    \/ Tick

SpecBurst == InitBurst /\ [][NextBurst]_vars

\* The runs in which progress is followed: callers contending for the lock,
\* two callers that retry and so reserve again, a lone caller retrying twice.
FairRuns ==
    { <<0, 2, 64, 1, NumCallers>>,
      <<1, 2, 2, 0, 2>>,
      <<2, 2, 64, 0, 1>> }

\* The callers call together at MaxTime, no slot reserved so far: from then on
\* the clock is followed only as far as some sleeper needs it.
InitFair == InitTogether(FairRuns, {MaxTime})

\* line 26-88: what a thread does next once it has the lock or needs none.
\* One of these is enabled whenever pc[c] is past "lock" and not final, apart
\* from a sleeper whose instant has not come.
Step(c) ==
    \/ Advance(c)
    \/ Wake(c)
    \/ InvokeReturn(c)
    \/ InvokeRaise(c)
    \/ Reraise(c)
    \/ StartBackoff(c)
    \/ EndBackoff(c)

\* line 22, 29, 38, 71: a thread waiting for a lock that stays free gets it,
\* time.monotonic() advances, time.sleep and the operation return, and a
\* thread that can run its next statement does.
Fairness ==
    /\ WF_vars(Tick)
    /\ \A c \in Callers : WF_vars(Reserve(c)) /\ WF_vars(Step(c))

SpecFair == InitFair /\ [][NextBurst]_vars /\ Fairness

\* ---------------------------------------------------------------- the classification alone
\* No caller calls; _is_retriable_error is applied to one sample error.
InitClassify ==
    /\ clock = 0
    /\ _next_request_time = 0
    /\ _rate_limit_lock = NoCaller
    /\ MAX_RETRIES = 0
    /\ BACKOFF_BASE_SECONDS = 2
    /\ BACKOFF_MAX_SECONDS = 64
    /\ BACKOFF_JITTER_SECONDS = 1
    /\ pc = [c \in Callers |-> "absent"]
    /\ attempt = [c \in Callers |-> 0]
    /\ now = [c \in Callers |-> 0]
    /\ reserved_time = [c \in Callers |-> 0]
    /\ wait_seconds = [c \in Callers |-> 0]
    /\ delay = [c \in Callers |-> 0]
    /\ wake = [c \in Callers |-> 0]
    /\ error = [c \in Callers |-> NoError]
    /\ outcome = [c \in Callers |-> [status |-> "none"]]
    /\ reservations = << >>
    /\ invocations = << >>
    /\ acquired = [c \in Callers |-> 0]
    /\ invoked = [c \in Callers |-> 0]
    /\ retriable_raised = [c \in Callers |-> 0]
    /\ fatal_raised = [c \in Callers |-> 0]
    /\ backoffs = [c \in Callers |-> 0]
    /\ slept = [c \in Callers |-> 0]
    /\ failures = 0
    /\ ticket = [c \in Callers |-> 0]
    /\ burst_at = -1
    /\ probe \in SampleErrors
    /\ verdict = "none"

\* line 41-61, called on probe
Classify ==
    /\ verdict = "none"
    /\ verdict' = IF _is_retriable_error(probe) THEN "True" ELSE "False"
    /\ UNCHANGED << ticket, clock, _next_request_time, _rate_limit_lock, fixedVars, pc,
                    attempt, gateLocals, delay, wake, error, outcome, history, probe >>

SpecClassify == InitClassify /\ [][Classify]_vars

\* ---------------------------------------------------------------- claims
\* C1: the reserved instants of any two distinct reservations differ by at least
\* the interval, whatever the interleaving of the callers.
C1_ReservationsNeverOverlap ==
    \A i, j \in 1..Len(reservations) :
        i < j => \/ reservations[j] - reservations[i] >= REQUEST_INTERVAL_SECONDS
                 \/ reservations[i] - reservations[j] >= REQUEST_INTERVAL_SECONDS

\* Two callers raced for the gate at the same instant: one has the first slot, the
\* other sleeps until the slot one interval later.
C1_Witness ==
    /\ Len(reservations) >= 2
    /\ reservations[2] = reservations[1] + REQUEST_INTERVAL_SECONDS
    /\ \E c \in Callers :
        /\ pc[c] = "sleeping"
        /\ wake[c] = reservations[2]
        /\ clock < wake[c]

\* C2: the instants at which any two invocations of the operation start (the
\* callers having returned from _wait_for_request_slot) are at least one interval
\* apart, whatever the scheduling between reservation, wake-up and invocation.
C2_InvocationsOneIntervalApart ==
    \A i, j \in 1..Len(invocations) :
        i < j => invocations[j] - invocations[i] >= REQUEST_INTERVAL_SECONDS

\* The positions at which a call has ended.
Terminal == { "returned", "raised", "fell_through" }

\* C3: one call invokes the operation at most MAX_RETRIES + 1 times, and every
\* invocation follows its own completed _wait_for_request_slot: the returns of
\* the gate equal the invocations started, or are one more exactly when the
\* invocation is about to start.
C3_AttemptsBoundedAndGated ==
    \A c \in Callers :
        /\ invoked[c] <= MAX_RETRIES + 1
        /\ acquired[c] = invoked[c] \/ acquired[c] = invoked[c] + 1
        /\ acquired[c] = invoked[c] + 1 <=> pc[c] = "call"

\* A call with MAX_RETRIES = 2 has made its third invocation.
C3_Witness ==
    \E c \in Callers :
        /\ MAX_RETRIES = 2
        /\ invoked[c] = MAX_RETRIES + 1
        /\ acquired[c] = MAX_RETRIES + 1

\* C4: a call whose every invocation raised a retriable error ends only after
\* exactly MAX_RETRIES + 1 invocations, by propagating the error of the last
\* one, with MAX_RETRIES backoff waits and none after the last attempt.
C4_ExhaustedRetriesPropagateLastError ==
    \A c \in Callers :
        (pc[c] \in Terminal /\ retriable_raised[c] = invoked[c]) =>
            /\ pc[c] = "raised"
            /\ invoked[c] = MAX_RETRIES + 1
            /\ outcome[c].status = "error"
            /\ outcome[c].error.attempt = MAX_RETRIES
            /\ [kind |-> outcome[c].error.kind, message |-> outcome[c].error.message]
                   \in OperationErrors
            /\ _is_retriable_error(outcome[c].error)
            /\ backoffs[c] = MAX_RETRIES
            /\ wake[c] = 0

\* A call with MAX_RETRIES = 2 has ended after three retriable failures.
C4_Witness ==
    \E c \in Callers :
        /\ MAX_RETRIES = 2
        /\ pc[c] = "raised"
        /\ retriable_raised[c] = 3
        /\ invoked[c] = 3

\* C5: once an invocation has raised an error classified fatal, the call
\* propagates that error and does nothing else: no further invocation, no
\* further gate acquisition, no backoff wait; a fatal error on the first
\* attempt gives one invocation and no backoff wait.
C5_FatalErrorPropagatesAtOnce ==
    \A c \in Callers :
        fatal_raised[c] > 0 =>
            /\ fatal_raised[c] = 1
            /\ pc[c] \in { "except", "raised" }
            /\ invoked[c] = attempt[c] + 1
            /\ acquired[c] = invoked[c]
            /\ backoffs[c] = attempt[c]
            /\ wake[c] = 0
            /\ pc[c] = "except" =>
                   error[c].attempt = attempt[c] /\ ~_is_retriable_error(error[c])
            /\ pc[c] = "raised" =>
                   /\ outcome[c].status = "error"
                   /\ outcome[c].error.attempt = attempt[c]
                   /\ ~_is_retriable_error(outcome[c].error)
            /\ attempt[c] = 0 => invoked[c] = 1 /\ backoffs[c] = 0 /\ slept[c] = 0

\* A call with MAX_RETRIES = 2 has ended on a fatal error of its first attempt.
C5_Witness ==
    \E c \in Callers :
        /\ MAX_RETRIES = 2
        /\ pc[c] = "raised"
        /\ fatal_raised[c] = 1
        /\ invoked[c] = 1

\* C6: a call whose first invocation succeeded has returned that result after
\* one invocation, one gate acquisition and no backoff wait, under every policy.
C6_FirstSuccessReturnsAtOnce ==
    \A c \in Callers :
        (invoked[c] >= 1 /\ retriable_raised[c] = 0 /\ fatal_raised[c] = 0) =>
            /\ pc[c] = "returned"
            /\ outcome[c] = [status |-> "result", attempt |-> 0]
            /\ invoked[c] = 1
            /\ acquired[c] = 1
            /\ backoffs[c] = 0
            /\ slept[c] = 0

\* A call with retries allowed has returned the result of its first invocation.
C6_Witness ==
    \E c \in Callers :
        /\ MAX_RETRIES = 2
        /\ BACKOFF_BASE_SECONDS > 0
        /\ pc[c] = "returned"
        /\ invoked[c] = 1

\* C7: a call whose first k invocations raised retriable errors and whose
\* invocation k+1 succeeded has made k+1 invocations and k backoff waits and
\* has returned the result of invocation k+1, no error.
C7_SuccessAfterRetriesReturnsLastResult ==
    \A c \in Callers :
        (fatal_raised[c] = 0 /\ invoked[c] = retriable_raised[c] + 1) =>
            /\ pc[c] = "returned"
            /\ outcome[c] = [status |-> "result", attempt |-> retriable_raised[c]]
            /\ backoffs[c] = retriable_raised[c]
            /\ acquired[c] = retriable_raised[c] + 1
            /\ retriable_raised[c] <= MAX_RETRIES

\* The scenario k = 2, MAX_RETRIES = 2: the third invocation gave the result.
C7_Witness ==
    \E c \in Callers :
        /\ MAX_RETRIES = 2
        /\ pc[c] = "returned"
        /\ retriable_raised[c] = 2
        /\ invoked[c] = 3
        /\ outcome[c].attempt = 2

\* C8: _is_retriable_error(error) is true exactly when the error's kind is
\* connection refused, transport timeout, internal server error or gateway
\* timeout, or its message contains, letter case ignored, one of the ten
\* tokens; every other error is fatal.
C8_RetriableKinds ==
    { "ConnectionRefusedError", "TimeoutError", "InternalServerErrorException",
      "GatewayTimeoutException" }

C8_Tokens ==
    { << "4", "2", "9" >>,
      << "t", "o", "o", " ", "m", "a", "n", "y", " ", "r", "e", "q", "u", "e", "s", "t", "s" >>,
      << "t", "i", "m", "e", "d", " ", "o", "u", "t" >>,
      << "t", "i", "m", "e", "o", "u", "t" >>,
      << "c", "o", "n", "n", "e", "c", "t", "i", "o", "n", " ", "r", "e", "s", "e", "t" >>,
      << "c", "o", "n", "n", "e", "c", "t", "i", "o", "n", " ", "a", "b", "o", "r", "t", "e", "d" >>,
      << "t", "e", "m", "p", "o", "r", "a", "r", "i", "l", "y", " ", "u", "n", "a", "v", "a", "i", "l", "a", "b", "l", "e" >>,
      << "5", "0", "2" >>,
      << "5", "0", "3" >>,
      << "5", "0", "4" >> }

C8_HasToken(message, token) ==
    \E i \in 1..(Len(message) - Len(token) + 1) :
        \A j \in 1..Len(token) : LowerChar(message[i + j - 1]) = token[j]

C8_Retriable(e) ==
    \/ e.kind \in C8_RetriableKinds
    \/ \E token \in C8_Tokens : C8_HasToken(e.message, token)

C8_ClassificationIsExact ==
    verdict # "none" =>
        /\ verdict = "True" <=> C8_Retriable(probe)
        /\ probe.kind = "Exception" =>
            /\ probe.message = << "4", "2", "9" >> => verdict = "True"
            /\ probe.message = << "H", "T", "T", "P", " ", "5", "0", "3" >> => verdict = "True"
            /\ probe.message = << "C", "o", "n", "n", "e", "c", "t", "i", "o", "n", " ",
                                  "r", "e", "s", "e", "t", " ", "b", "y", " ",
                                  "p", "e", "e", "r" >> => verdict = "True"
            /\ probe.message = << "i", "n", "v", "a", "l", "i", "d", " ",
                                  "a", "r", "g", "u", "m", "e", "n", "t" >> => verdict = "False"

\* An error of no retriable kind whose upper-case message holds a token was
\* classified retriable.
C8_Witness ==
    /\ verdict = "True"
    /\ probe.kind = "Exception"
    /\ probe.message = << "T", "I", "M", "E", "O", "U", "T" >>

\* C9: the delay computed before a retry, for every attempt index
\* 0..MAX_RETRIES-1 and every jitter drawn, never exceeds
\* BACKOFF_MAX_SECONDS + BACKOFF_JITTER_SECONDS.
C9_DelayNeverExceedsCapPlusJitter ==
    \A c \in Callers :
        /\ delay[c] <= BACKOFF_MAX_SECONDS + BACKOFF_JITTER_SECONDS
        /\ pc[c] = "backoff" =>
            /\ attempt[c] \in 0..(MAX_RETRIES - 1)
            /\ wake[c] - clock <= BACKOFF_MAX_SECONDS + BACKOFF_JITTER_SECONDS

\* The cap binds and the largest jitter was drawn: the delay is the bound itself.
C9_Witness ==
    \E c \in Callers :
        /\ pc[c] = "backoff"
        /\ BACKOFF_BASE_SECONDS * Pow2(attempt[c]) > BACKOFF_MAX_SECONDS
        /\ BACKOFF_JITTER_SECONDS > 0
        /\ delay[c] = BACKOFF_MAX_SECONDS + BACKOFF_JITTER_SECONDS

\* C10: the delay before retry i+1 is never below min(cap, base * 2^i), and a
\* call whose every invocation raised a retriable error has spent in backoff
\* waits at least the sum of these over i = 0..MAX_RETRIES-1.
C10_Floor(i) ==
    IF BACKOFF_BASE_SECONDS * Pow2(i) < BACKOFF_MAX_SECONDS
    THEN BACKOFF_BASE_SECONDS * Pow2(i)
    ELSE BACKOFF_MAX_SECONDS

RECURSIVE C10_FloorSum(_)
C10_FloorSum(n) == IF n = 0 THEN 0 ELSE C10_FloorSum(n - 1) + C10_Floor(n - 1)

C10_BackoffTimeAtLeastFloorSum ==
    \A c \in Callers :
        /\ pc[c] = "backoff" => delay[c] >= C10_Floor(attempt[c])
        /\ slept[c] >= C10_FloorSum(attempt[c])
        /\ (pc[c] = "raised" /\ retriable_raised[c] = invoked[c]) =>
               slept[c] >= C10_FloorSum(MAX_RETRIES)

\* Base 1 s, two retries, three retriable failures: the waits took exactly
\* 1 s + 2 s.
C10_Witness ==
    \E c \in Callers :
        /\ MAX_RETRIES = 2
        /\ BACKOFF_BASE_SECONDS = 2
        /\ pc[c] = "raised"
        /\ retriable_raised[c] = 3
        /\ slept[c] = 6

\* C11: when every caller calls the gate at the same instant, burst_at, the
\* caller whose reservation is the K-th made under the lock is not back from
\* the gate before burst_at + (K - 1) * interval.
C11_KthCallerWaitsKMinusOneIntervals ==
    \A c \in Callers :
        (pc[c] = "call" /\ ticket[c] > 0) =>
            clock >= burst_at + (ticket[c] - 1) * REQUEST_INTERVAL_SECONDS

\* Every caller of a burst holds a slot, and the one that reserved last is
\* back from the gate exactly (NumCallers - 1) intervals after the burst.
C11_Witness ==
    /\ burst_at >= 0
    /\ Len(reservations) = NumCallers
    /\ \E c \in Callers :
        /\ ticket[c] = NumCallers
        /\ pc[c] = "call"
        /\ clock = burst_at + (NumCallers - 1) * REQUEST_INTERVAL_SECONDS

\* C12: with a fair lock and advancing time every call of the gate returns,
\* also while other callers keep reserving slots.
C12_EveryGateCallReturns ==
    \A c \in Callers :
        (pc[c] \in {"lock", "advance", "sleeping"}) ~> (pc[c] = "call")

\* A caller is back from the gate after sleeping for its slot, and another
\* caller has reserved a slot after it.
C12_Witness ==
    \E c \in Callers :
        /\ pc[c] = "call"
        /\ ticket[c] > 1
        /\ ticket[c] < Len(reservations)
        /\ clock >= reservations[ticket[c]]

\* C13: _next_request_time never decreases, and every step that changes it is
\* taken by the caller that holds the lock when the step is taken.
C13_NextRequestTimeMonotoneUnderLock ==
    [][/\ _next_request_time' >= _next_request_time
       /\ _next_request_time' # _next_request_time =>
              \E c \in Callers :
                  /\ _rate_limit_lock = c
                  /\ pc[c] = "advance"
                  /\ pc'[c] # "advance"]_vars

\* Two callers have changed _next_request_time in turn and the lock is free
\* again.
C13_Witness ==
    /\ Len(reservations) = 2
    /\ _rate_limit_lock = NoCaller
    /\ _next_request_time = reservations[2] + REQUEST_INTERVAL_SECONDS
    /\ _next_request_time > reservations[1] + REQUEST_INTERVAL_SECONDS

\* C14: all calls share one schedule: every attempt, first or retry, of any
\* caller holds a reservation of its own, and the instants reserved by any two
\* attempts differ by at least one interval.
C14_InGate == { c \in Callers : pc[c] \in {"advance", "sleeping", "call"} }

C14_AttemptsShareOneSchedule ==
    /\ Len(reservations) = Len(invocations) + Cardinality(C14_InGate)
    /\ \A c \in C14_InGate :
        /\ pc[c] = "call" => acquired[c] = attempt[c] + 1
        /\ ticket[c] \in 1..Len(reservations)
        /\ \A d \in C14_InGate : c # d => ticket[c] # ticket[d]
    /\ \A i \in 1..Len(reservations) : \A j \in (i + 1)..Len(reservations) :
           \/ reservations[i] - reservations[j] >= REQUEST_INTERVAL_SECONDS
           \/ reservations[j] - reservations[i] >= REQUEST_INTERVAL_SECONDS

\* Two callers have each made a first attempt and a retry: four slots.
C14_Witness ==
    /\ Len(reservations) = 4
    /\ Len(invocations) = 4
    /\ \E c, d \in Callers : c # d /\ invoked[c] = 2 /\ invoked[d] = 2

\* C15: in the example (one call, interval 1 s, two retries, base 1 s, cap
\* 32 s, the first two attempts fail with a retriable error, the third
\* succeeds) the call takes at least two gate waits of one interval and the
\* two backoff delays: 2 s + 1 s + 2 s.
C15_Example(c) ==
    /\ burst_at >= 0
    /\ \A d \in Callers : d # c => pc[d] = "absent"
    /\ MAX_RETRIES = 2
    /\ BACKOFF_BASE_SECONDS = REQUEST_INTERVAL_SECONDS
    /\ BACKOFF_MAX_SECONDS = 32 * REQUEST_INTERVAL_SECONDS
    /\ pc[c] = "returned"
    /\ outcome[c] = [status |-> "result", attempt |-> 2]
    /\ retriable_raised[c] = 2
    /\ fatal_raised[c] = 0

C15_WaitsAreAdditive ==
    \A c \in Callers :
        C15_Example(c) =>
            clock - burst_at >=
                2 * REQUEST_INTERVAL_SECONDS + Backoff(0) + Backoff(1)

\* C15, amended: in the example the call takes at least the two backoff
\* delays, 1 s + 2 s; the gate adds no wait to a delay of an interval or more.
C15_ExampleTakesTheBackoffDelays ==
    \A c \in Callers :
        C15_Example(c) => clock - burst_at >= Backoff(0) + Backoff(1)

\* The example has run in exactly 3 s.
C15_Witness ==
    \E c \in Callers :
        /\ C15_Example(c)
        /\ clock - burst_at = 3 * REQUEST_INTERVAL_SECONDS
        /\ invocations = << burst_at, burst_at + Backoff(0),
                           burst_at + Backoff(0) + Backoff(1) >>

\* C16: the lock is held only between taking it and leaving the with block:
\* no caller holds it while it sleeps for its slot, runs the operation or
\* sleeps in backoff, so the lock is free for a caller that asks for it whenever
\* nobody is between taking it and leaving the with block.
C16_Outside == {"sleeping", "call", "except", "backoff"}

C16_LockHeldOnlyToReserve ==
    /\ \A c \in Callers : _rate_limit_lock = c => pc[c] = "advance"
    /\ \A c \in Callers : pc[c] \in C16_Outside => _rate_limit_lock # c
    /\ (\A c \in Callers : pc[c] # "advance") => LockFree(_rate_limit_lock)

\* One caller still sleeps for its slot while another holds the lock and
\* reserves the slot after it.
C16_Witness ==
    \E c, d \in Callers :
        /\ pc[c] = "sleeping"
        /\ clock < wake[c]
        /\ pc[d] = "advance"
        /\ _rate_limit_lock = d
        /\ ticket[d] > ticket[c]

\* C17: slots are issued in the order of the reservations under the lock: a
\* reservation made earlier has the earlier instant, by at least one interval,
\* whichever caller made it.
C17_SlotsInReservationOrder ==
    /\ \A i \in 1..Len(reservations) : \A j \in (i + 1)..Len(reservations) :
           reservations[j] - reservations[i] >= REQUEST_INTERVAL_SECONDS
    /\ \A c, d \in Callers :
           (0 < ticket[c] /\ ticket[c] < ticket[d]) =>
               reservations[ticket[d]] - reservations[ticket[c]]
                   >= REQUEST_INTERVAL_SECONDS

\* The second caller reserved first and holds the earlier slot; the first
\* caller holds the slot one interval later.
C17_Witness ==
    \E c, d \in Callers :
        /\ c < d
        /\ ticket[d] = 1
        /\ ticket[c] = 2
        /\ reservations[2] = reservations[1] + REQUEST_INTERVAL_SECONDS

\* C18: every reservation advances _next_request_time by exactly one interval:
\* its value after the reservation is its value before plus the interval.
C18_AdvancesByExactlyOneInterval ==
    [][\A c \in Callers :
           (pc[c] = "advance" /\ pc'[c] # "advance") =>
               _next_request_time' =
                   _next_request_time + REQUEST_INTERVAL_SECONDS]_vars

\* C18, amended: every reservation sets _next_request_time to the instant it
\* reserved plus one interval; that is at least one interval more than before,
\* and exactly one interval more when the caller read the clock no later than
\* the value before.
C18_AdvancesToReservedPlusInterval ==
    [][\A c \in Callers :
           (pc[c] = "advance" /\ pc'[c] # "advance") =>
               /\ _next_request_time' =
                      reservations[ticket[c]] + REQUEST_INTERVAL_SECONDS
               /\ _next_request_time' >=
                      _next_request_time + REQUEST_INTERVAL_SECONDS
               /\ now[c] <= _next_request_time =>
                      _next_request_time' =
                          _next_request_time + REQUEST_INTERVAL_SECONDS
               /\ now[c] > _next_request_time =>
                      _next_request_time' = now[c] + REQUEST_INTERVAL_SECONDS]_vars

\* Two reservations are complete and the second came more than an interval
\* after the first: _next_request_time has advanced by more than two intervals.
C18_Witness ==
    /\ Len(reservations) = 2
    /\ \A c \in Callers : pc[c] # "advance"
    /\ reservations[2] > reservations[1] + REQUEST_INTERVAL_SECONDS
    /\ _next_request_time = reservations[2] + REQUEST_INTERVAL_SECONDS

\* C19: with a terminating operation and fair scheduling every call of the
\* executor ends, and it ends with exactly one outcome, the result of its last
\* invocation or the error its last invocation raised; never without an
\* outcome and never without having invoked the operation.
C19_OneOutcome(c) ==
    /\ invoked[c] >= 1
    /\ \/ /\ pc[c] = "returned"
          /\ outcome[c] = [status |-> "result", attempt |-> invoked[c] - 1]
       \/ /\ pc[c] = "raised"
          /\ outcome[c].status = "error"
          /\ outcome[c].error.attempt = invoked[c] - 1
          /\ [kind |-> outcome[c].error.kind, message |-> outcome[c].error.message]
                 \in OperationErrors

C19_EveryCallEndsWithOneOutcome ==
    \A c \in Callers :
        (pc[c] # "absent") ~> (pc[c] \in Terminal /\ C19_OneOutcome(c))

\* One caller has ended with the result of its second invocation, the other
\* with the error of its second invocation.
C19_Witness ==
    \E c, d \in Callers :
        /\ pc[c] = "returned"
        /\ outcome[c] = [status |-> "result", attempt |-> 1]
        /\ pc[d] = "raised"
        /\ outcome[d].status = "error"
        /\ outcome[d].error.attempt = 1
        /\ invoked[d] = 2

\* C20: only the reservation changes the shared schedule: calling the
\* executor, waking from the wait for a slot, invoking the operation, its
\* success or failure, the classification of the error, the backoff wait, the
\* propagation of the error and the passing of time leave _next_request_time
\* and the lock as they are, and no step changes the retry policy.
C20_Elsewhere == {"start", "sleeping", "call", "except", "backoff"}

C20_OnlyReservationChangesSchedule ==
    [][/\ \A c \in Callers :
              (pc[c] \in C20_Elsewhere /\ pc'[c] # pc[c]) =>
                  /\ _next_request_time' = _next_request_time
                  /\ _rate_limit_lock' = _rate_limit_lock
       /\ (\A c \in Callers : pc'[c] = pc[c]) =>
              /\ _next_request_time' = _next_request_time
              /\ _rate_limit_lock' = _rate_limit_lock
       /\ (\A c \in Callers : pc[c] = "advance" => pc'[c] = "advance") =>
              _next_request_time' = _next_request_time
       /\ MAX_RETRIES' = MAX_RETRIES
       /\ BACKOFF_BASE_SECONDS' = BACKOFF_BASE_SECONDS
       /\ BACKOFF_MAX_SECONDS' = BACKOFF_MAX_SECONDS
       /\ BACKOFF_JITTER_SECONDS' = BACKOFF_JITTER_SECONDS]_vars

\* A call has retried after a backoff wait and then propagated an error; the
\* schedule still stands one interval after the last slot reserved.
C20_Witness ==
    \E c \in Callers :
        /\ pc[c] = "raised"
        /\ backoffs[c] >= 1
        /\ invoked[c] >= 2
        /\ Len(reservations) = Len(invocations)
        /\ _next_request_time =
               reservations[Len(reservations)] + REQUEST_INTERVAL_SECONDS

====
